---- MODULE Spec2Model ----
(***************************************************************************)
(* Model of the request client of apps/frontend/lib/api.ts: apiRequest,    *)
(* the wrappers get/post/put/patch/del and the ApiError class, together    *)
(* with the parts of the platform they rest on (fetch, Response.json,      *)
(* JSON.stringify, the Error constructor's string coercion).               *)
(***************************************************************************)
EXTENDS Integers, Sequences, FiniteSets, TLC

(***************************************************************************)
(* JavaScript values.  A value is a record tagged by its kind k.           *)
(***************************************************************************)
Undefined == [k |-> "undefined"]
Null      == [k |-> "null"]
Bool(b)   == [k |-> "bool", b |-> b]
Num(n)    == [k |-> "num", n |-> n]
Str(s)    == [k |-> "str", s |-> s]
BigInt(n) == [k |-> "bigint", n |-> n]
Arr(items) == [k |-> "arr", items |-> items]
\* fields: a sequence of [key, val] in insertion order, keys distinct
Obj(fields) == [k |-> "obj", fields |-> fields]
Field(key, val) == [key |-> key, val |-> val]

HasField(o, key) == \E i \in 1..Len(o.fields) : o.fields[i].key = key

\* o.key for an object o; undefined when the key is absent
GetField(o, key) ==
  IF HasField(o, key)
  THEN LET i == CHOOSE j \in 1..Len(o.fields) : o.fields[j].key = key
       IN  o.fields[i].val
  ELSE Undefined

\* o[key] = val: replaces in place when the key exists, else appends
SetField(fields, key, val) ==
  IF \E i \in 1..Len(fields) : fields[i].key = key
  THEN [i \in 1..Len(fields) |->
          IF fields[i].key = key THEN Field(key, val) ELSE fields[i]]
  ELSE Append(fields, Field(key, val))

\* ToBoolean
Truthy(v) ==
  CASE v.k = "undefined" -> FALSE
    [] v.k = "null"      -> FALSE
    [] v.k = "bool"      -> v.b
    [] v.k = "num"       -> v.n # 0
    [] v.k = "bigint"    -> v.n # 0
    [] v.k = "str"       -> v.s # ""
    [] OTHER             -> TRUE

RECURSIVE ToJsString(_)
RECURSIVE JoinItems(_, _)
\* Array.prototype.join(","): null and undefined elements give ""
JoinItems(items, i) ==
  IF i > Len(items) THEN ""
  ELSE (IF i > 1 THEN "," ELSE "")
       \o (IF items[i].k \in {"null", "undefined"} THEN "" ELSE ToJsString(items[i]))
       \o JoinItems(items, i + 1)

\* ToString, as the Error constructor applies it to its message argument
ToJsString(v) ==
  CASE v.k = "undefined" -> "undefined"
    [] v.k = "null"      -> "null"
    [] v.k = "bool"      -> IF v.b THEN "true" ELSE "false"
    [] v.k = "num"       -> ToString(v.n)
    [] v.k = "bigint"    -> ToString(v.n)
    [] v.k = "str"       -> v.s
    [] v.k = "arr"       -> JoinItems(v.items, 1)
    [] OTHER             -> "[object Object]"

(***************************************************************************)
(* JSON text, as a sequence of lexical tokens.                             *)
(***************************************************************************)
P(c)      == [t |-> c]
NumTok(n) == [t |-> "num", n |-> n]
StrTok(s) == [t |-> "str", s |-> s]

\* JSON.stringify throws on these (TypeError: cannot serialize a BigInt)
RECURSIVE Unserializable(_)
Unserializable(v) ==
  CASE v.k = "bigint" -> TRUE
    [] v.k = "arr"    -> \E i \in 1..Len(v.items) : Unserializable(v.items[i])
    [] v.k = "obj"    -> \E i \in 1..Len(v.fields) : Unserializable(v.fields[i].val)
    [] OTHER          -> FALSE

RECURSIVE SerializeValue(_)
RECURSIVE SerializeItems(_, _)
RECURSIVE SerializeFields(_, _, _)
SerializeItems(items, i) ==
  IF i > Len(items) THEN <<>>
  ELSE (IF i > 1 THEN <<P(",")>> ELSE <<>>)
       \o (IF items[i].k = "undefined" THEN <<P("null")>> ELSE SerializeValue(items[i]))
       \o SerializeItems(items, i + 1)

\* members whose value is undefined are left out
SerializeFields(fields, i, first) ==
  IF i > Len(fields) THEN <<>>
  ELSE IF fields[i].val.k = "undefined" THEN SerializeFields(fields, i + 1, first)
  ELSE (IF first THEN <<>> ELSE <<P(",")>>)
       \o <<StrTok(fields[i].key), P(":")>> \o SerializeValue(fields[i].val)
       \o SerializeFields(fields, i + 1, FALSE)

SerializeValue(v) ==
  CASE v.k = "null" -> <<P("null")>>
    [] v.k = "bool" -> <<P(IF v.b THEN "true" ELSE "false")>>
    [] v.k = "num"  -> <<NumTok(v.n)>>
    [] v.k = "str"  -> <<StrTok(v.s)>>
    [] v.k = "arr"  -> <<P("[")>> \o SerializeItems(v.items, 1) \o <<P("]")>>
    [] v.k = "obj"  -> <<P("{")>> \o SerializeFields(v.fields, 1, TRUE) \o <<P("}")>>

\* JSON.stringify(v): [throws], else [text] (a JS string holding the tokens)
\* or undefined for an undefined argument
JsonStringify(v) ==
  IF Unserializable(v)
  THEN [throws |-> TRUE, value |-> Undefined]
  ELSE IF v.k = "undefined"
  THEN [throws |-> FALSE, value |-> Undefined]
  ELSE [throws |-> FALSE, value |-> [k |-> "text", toks |-> SerializeValue(v)]]

ParseFail(atEnd) == [ok |-> FALSE, atEnd |-> atEnd]
ParseOk(val, next) == [ok |-> TRUE, val |-> val, next |-> next]
TokAt(toks, i) == IF i <= Len(toks) THEN toks[i].t ELSE "eof"

RECURSIVE ParseValue(_, _)
RECURSIVE ParseElems(_, _, _)
RECURSIVE ParseMembers(_, _, _)
ParseElems(toks, i, acc) ==
  LET r == ParseValue(toks, i) IN
  IF ~r.ok THEN r
  ELSE CASE TokAt(toks, r.next) = "," -> ParseElems(toks, r.next + 1, Append(acc, r.val))
         [] TokAt(toks, r.next) = "]" -> ParseOk(Arr(Append(acc, r.val)), r.next + 1)
         [] OTHER -> ParseFail(r.next > Len(toks))

ParseMembers(toks, i, acc) ==
  IF TokAt(toks, i) # "str" THEN ParseFail(i > Len(toks))
  ELSE IF TokAt(toks, i + 1) # ":" THEN ParseFail(i + 1 > Len(toks))
  ELSE LET r == ParseValue(toks, i + 2) IN
       IF ~r.ok THEN r
       ELSE LET acc2 == SetField(acc, toks[i].s, r.val) IN
            CASE TokAt(toks, r.next) = "," -> ParseMembers(toks, r.next + 1, acc2)
              [] TokAt(toks, r.next) = "}" -> ParseOk(Obj(acc2), r.next + 1)
              [] OTHER -> ParseFail(r.next > Len(toks))

ParseValue(toks, i) ==
  LET t == TokAt(toks, i) IN
  CASE t = "null"  -> ParseOk(Null, i + 1)
    [] t = "true"  -> ParseOk(Bool(TRUE), i + 1)
    [] t = "false" -> ParseOk(Bool(FALSE), i + 1)
    [] t = "num"   -> ParseOk(Num(toks[i].n), i + 1)
    [] t = "str"   -> ParseOk(Str(toks[i].s), i + 1)
    [] t = "["     -> IF TokAt(toks, i + 1) = "]" THEN ParseOk(Arr(<<>>), i + 2)
                      ELSE ParseElems(toks, i + 1, <<>>)
    [] t = "{"     -> IF TokAt(toks, i + 1) = "}" THEN ParseOk(Obj(<<>>), i + 2)
                      ELSE ParseMembers(toks, i + 1, <<>>)
    [] OTHER       -> ParseFail(i > Len(toks))

\* JSON.parse(text): [ok, val], or [ok = FALSE, message] for the SyntaxError
JsonParse(toks) ==
  LET r == ParseValue(toks, 1) IN
  IF r.ok /\ r.next = Len(toks) + 1 THEN [ok |-> TRUE, val |-> r.val]
  ELSE IF (~r.ok /\ r.atEnd)
  THEN [ok |-> FALSE, message |-> "Unexpected end of JSON input"]
  ELSE [ok |-> FALSE, message |-> "Unexpected token in JSON"]

(***************************************************************************)
(* Errors.  cls is the class of a thrown value; "none" marks a thrown      *)
(* value that is not an Error instance.                                    *)
(***************************************************************************)
JsError(cls, message) == [cls |-> cls, message |-> message]
NonError(value) == [cls |-> "none", value |-> value]
InstanceOfError(e) == e.cls # "none"
InstanceOfApiError(e) == e.cls = "ApiError"

\* new ApiError(message, status, data): super(message) coerces message to a
\* string; an omitted data leaves this.data undefined
ApiError(message, status, data) ==
  [cls |-> "ApiError", name |-> "ApiError", message |-> ToJsString(message),
   status |-> status, data |-> data]

(***************************************************************************)
(* Bounds and input sets.                                                  *)
(***************************************************************************)
MaxCalls == 2

\* callers whose calls run concurrently
NumCalls == 2
CallIds == 1..NumCalls

NoContent == 204

DefaultBaseUrl == "http://localhost:8000"

\* values of process.env.NEXT_PUBLIC_API_URL
EnvValues == {Undefined, Str(""), Str("https://api.example.com")}

Endpoints == {"/health", "/items/5"}

Healthy == Obj(<<Field("status", Str("healthy"))>>)
NewUser == Obj(<<Field("name", Str("A")), Field("email", Str("a@x.com"))>>)

\* decoded bodies the server may send
JsonFixtures ==
  { Healthy, Obj(<<>>), Null, Num(7), Str("ok"), Bool(TRUE), Arr(<<Num(1), Str("a")>>),
    Obj(<<Field("detail", Str("Not found"))>>),
    Obj(<<Field("detail", Str(""))>>),
    Obj(<<Field("detail", Arr(<<>>))>>),
    Obj(<<Field("detail", Arr(<<Obj(<<Field("msg", Str("bad"))>>)>>)),
          Field("code", Num(3))>>) }

ValidBodies == { JsonStringify(v).value.toks : v \in JsonFixtures }

InvalidBodies ==
  { <<>>, <<P("<html>")>>, <<P("{"), StrTok("detail"), P(":")>>,
    <<P("{"), StrTok("detail"), P(":"), StrTok("X"), P("}"), P("}")>> }

Statuses == {200, 201, NoContent, 299, 300, 404, 422}

\* a received response: its status, the body on the wire, and whether the
\* body stream errors while it is read
Responses ==
  [status : Statuses, body : ValidBodies \cup InvalidBodies, bodyErrored : {FALSE}]
  \cup
  [status : Statuses, body : {SerializeValue(Healthy), <<P("<html>")>>},
   bodyErrored : {TRUE}]

\* values fetch may reject with
FetchRejections ==
  { JsError("TypeError", "Failed to fetch"),
    JsError("DOMException", "The operation was aborted."),
    JsError("Error", ""),
    NonError(Str("cancelled")) }

\* the options argument of a wrapper
OptionValues ==
  { Undefined,
    Obj(<<Field("method", Str("HEAD")), Field("body", Str("raw")),
          Field("cache", Str("no-store"))>>) }

\* new Headers(list)
HeadersInstance(list) == [k |-> "headers", list |-> list]

\* options carrying headers, in each form HeadersInit allows
HeaderOptionValues ==
  { Obj(<<Field("headers", Obj(<<Field("Authorization", Str("Bearer t"))>>))>>),
    Obj(<<Field("headers", Obj(<<Field("Content-Type", Str("text/plain"))>>))>>),
    Obj(<<Field("headers", Obj(<<Field("content-type", Str("text/plain")),
                                 Field("X-A", Str("1"))>>))>>),
    Obj(<<Field("headers", HeadersInstance(<<Field("X-A", Str("1"))>>))>>),
    Obj(<<Field("headers", Arr(<<Arr(<<Str("X-A"), Str("1")>>)>>))>>) }

\* the data argument of post, put and patch
DataValues == { Undefined, NewUser, Num(0), BigInt(1) }

CallArgs ==
  [wrapper : {"get", "del"}, endpoint : Endpoints, data : {Undefined},
   options : OptionValues]
  \cup
  [wrapper : {"post", "put", "patch"}, endpoint : {"/items/5"}, data : DataValues,
   options : OptionValues]
  \cup
  [wrapper : {"get", "post"}, endpoint : {"/health"}, data : {Undefined},
   options : HeaderOptionValues]

\* inputs of the concurrent calls
ConcArgs ==
  { [wrapper |-> "get", endpoint |-> "/health", data |-> Undefined, options |-> Undefined],
    [wrapper |-> "post", endpoint |-> "/items/5", data |-> NewUser, options |-> Undefined],
    [wrapper |-> "put", endpoint |-> "/items/5", data |-> BigInt(1), options |-> Undefined] }

ConcResponses ==
  { [status |-> 200, body |-> SerializeValue(Healthy), bodyErrored |-> FALSE],
    [status |-> 200, body |-> <<P("<html>")>>, bodyErrored |-> FALSE],
    [status |-> NoContent, body |-> <<>>, bodyErrored |-> FALSE],
    [status |-> 404, body |-> SerializeValue(Obj(<<Field("detail", Str("Not found"))>>)),
     bodyErrored |-> FALSE] }

ConcRejections == { JsError("TypeError", "Failed to fetch") }

(***************************************************************************)
(* The program.                                                            *)
(***************************************************************************)
\* const API_BASE_URL = process.env.NEXT_PUBLIC_API_URL || "http://localhost:8000"
API_BASE_URL(envValue) ==
  IF Truthy(envValue) THEN envValue.s ELSE DefaultBaseUrl

\* { ...o }: the own enumerable fields of o: the fields of a plain object, the
\* indices of an array, none for undefined and none for a Headers instance
Spread(o) ==
  CASE o.k = "obj" -> o.fields
    [] o.k = "arr" -> [i \in 1..Len(o.items) |-> Field(ToString(i - 1), o.items[i])]
    [] OTHER       -> <<>>

RECURSIVE SpreadInto(_, _, _)
\* { ...base, ...o }: the fields of o, from index i, set over base
SpreadInto(base, fields, i) ==
  IF i > Len(fields) THEN base
  ELSE SpreadInto(SetField(base, fields[i].key, fields[i].val), fields, i + 1)

\* v.key: throws a TypeError on null and undefined
PropertyRead(v, key) ==
  IF v.k \in {"null", "undefined"}
  THEN [throws |-> TRUE,
        error |-> JsError("TypeError",
                          "Cannot read properties of " \o v.k \o " (reading '" \o key \o "')")]
  ELSE [throws |-> FALSE,
        value |-> IF v.k = "obj" THEN GetField(v, key) ELSE Undefined]

\* response.ok
ResponseOk(response) == response.status >= 200 /\ response.status <= 299

\* response.json(): resolves with the decoded body or rejects
ResponseJson(response) ==
  IF response.bodyErrored
  THEN [ok |-> FALSE, error |-> JsError("TypeError", "network error")]
  ELSE LET r == JsonParse(response.body) IN
       IF r.ok THEN [ok |-> TRUE, val |-> r.val]
       ELSE [ok |-> FALSE, error |-> JsError("SyntaxError", r.message)]

\* WrapperOptions writing body only when data is given, so that a body in the
\* caller's options survives when data is omitted
WrapperOptions_KeepsOptionsBody(wrapper, data, options) ==
  LET method == CASE wrapper = "get"   -> "GET"
                  [] wrapper = "post"  -> "POST"
                  [] wrapper = "put"   -> "PUT"
                  [] wrapper = "patch" -> "PATCH"
                  [] wrapper = "del"   -> "DELETE"
      withMethod == SetField(Spread(options), "method", Str(method))
  IN  IF wrapper \in {"get", "del"} \/ ~Truthy(data)
      THEN [throws |-> FALSE, value |-> Obj(withMethod)]
      ELSE LET s == JsonStringify(data) IN
           IF s.throws
           THEN [throws |-> TRUE,
                 error |-> JsError("TypeError", "Do not know how to serialize a BigInt")]
           ELSE [throws |-> FALSE, value |-> Obj(SetField(withMethod, "body", s.value))]

\* WrapperOptions with the method written before the spread of options
WrapperOptions_MethodFirst(wrapper, data, options) ==
  LET method == CASE wrapper = "get"   -> "GET"
                  [] wrapper = "post"  -> "POST"
                  [] wrapper = "put"   -> "PUT"
                  [] wrapper = "patch" -> "PATCH"
                  [] wrapper = "del"   -> "DELETE"
      withMethod == SpreadInto(<<Field("method", Str(method))>>, Spread(options), 1)
  IN  IF wrapper \in {"get", "del"}
      THEN [throws |-> FALSE, value |-> Obj(withMethod)]
      ELSE IF ~Truthy(data)
      THEN [throws |-> FALSE, value |-> Obj(SetField(withMethod, "body", Undefined))]
      ELSE LET s == JsonStringify(data) IN
           IF s.throws
           THEN [throws |-> TRUE,
                 error |-> JsError("TypeError", "Do not know how to serialize a BigInt")]
           ELSE [throws |-> FALSE, value |-> Obj(SetField(withMethod, "body", s.value))]

\* the options object each wrapper hands to apiRequest; throws when
\* JSON.stringify(data) throws
WrapperOptions(wrapper, data, options) ==
  LET method == CASE wrapper = "get"   -> "GET"
                  [] wrapper = "post"  -> "POST"
                  [] wrapper = "put"   -> "PUT"
                  [] wrapper = "patch" -> "PATCH"
                  [] wrapper = "del"   -> "DELETE"
      withMethod == SetField(Spread(options), "method", Str(method))
  IN  IF wrapper \in {"get", "del"}
      THEN [throws |-> FALSE, value |-> Obj(withMethod)]
      ELSE IF ~Truthy(data)
      THEN [throws |-> FALSE, value |-> Obj(SetField(withMethod, "body", Undefined))]
      ELSE LET s == JsonStringify(data) IN
           IF s.throws
           THEN [throws |-> TRUE,
                 error |-> JsError("TypeError", "Do not know how to serialize a BigInt")]
           ELSE [throws |-> FALSE, value |-> Obj(SetField(withMethod, "body", s.value))]

DefaultHeaders == <<Field("Content-Type", Str("application/json"))>>

\* apiRequest up to the fetch call: the url and the config passed to fetch
BuildRequest(envValue, endpoint, options) ==
  [url |-> API_BASE_URL(envValue) \o endpoint,
   config |->
     Obj(SetField(Spread(options), "headers",
                  Obj(SpreadInto(DefaultHeaders, Spread(GetField(options, "headers")), 1))))]

\* header names are case-insensitive: the lower-case form fetch sends
LowerCase(name) ==
  CASE name = "Content-Type"  -> "content-type"
    [] name = "Authorization" -> "authorization"
    [] name = "X-A"           -> "x-a"
    [] OTHER                  -> name

RECURSIVE AppendHeaders(_, _, _)
\* Headers.append for each field of a plain object, from index i: a name
\* already in the list has the new value joined to its value with ", "
AppendHeaders(list, fields, i) ==
  IF i > Len(fields) THEN list
  ELSE LET name == LowerCase(fields[i].key)
           value == ToJsString(fields[i].val)
           next == IF \E j \in 1..Len(list) : list[j].name = name
                   THEN [j \in 1..Len(list) |->
                           IF list[j].name = name
                           THEN [name |-> name, value |-> list[j].value \o ", " \o value]
                           ELSE list[j]]
                   ELSE Append(list, [name |-> name, value |-> value])
       IN  AppendHeaders(next, fields, i + 1)

\* fetch(url, config): the request put on the wire
FetchSends(req) ==
  [url |-> req.url,
   method |-> GetField(req.config, "method"),
   headers |-> AppendHeaders(<<>>, GetField(req.config, "headers").fields, 1),
   body |-> GetField(req.config, "body")]

\* CatchBlock rethrowing whatever it caught
CatchBlock_Rethrows(error) == error

\* CatchBlock keeping the caught value as the new error's data
CatchBlock_KeepsCause(error) ==
  IF InstanceOfApiError(error) THEN error
  ELSE ApiError(IF InstanceOfError(error) THEN Str(error.message)
                ELSE Str("Unknown error occurred"),
                0,
                IF InstanceOfError(error) THEN Str(error.message) ELSE error.value)

\* CatchBlock with the error's own message dropped
CatchBlock_AlwaysUnknown(error) ==
  IF InstanceOfApiError(error) THEN error
  ELSE ApiError(Str("Unknown error occurred"), 0, Undefined)

\* the catch block of apiRequest: what is thrown to the caller for `error`
CatchBlock(error) ==
  IF InstanceOfApiError(error) THEN error
  ELSE ApiError(IF InstanceOfError(error) THEN Str(error.message)
                ELSE Str("Unknown error occurred"),
                0, Undefined)

\* NotOkThrow without the .catch(() => ({})) on response.json()
NotOkThrow_NoCatch(response) ==
  LET read == ResponseJson(response) IN
  IF ~read.ok THEN read.error
  ELSE LET detail == PropertyRead(read.val, "detail") IN
       IF detail.throws THEN detail.error
       ELSE ApiError(IF Truthy(detail.value) THEN detail.value
                     ELSE Str("API error: " \o ToString(response.status)),
                     response.status, read.val)

\* the !response.ok branch once response.json().catch(() => ({})) has settled:
\* the value thrown inside the try block
NotOkThrow(response) ==
  LET read == ResponseJson(response)
      errorData == IF read.ok THEN read.val ELSE Obj(<<>>)
      detail == PropertyRead(errorData, "detail")
  IN  IF detail.throws THEN detail.error
      ELSE ApiError(IF Truthy(detail.value) THEN detail.value
                    ELSE Str("API error: " \o ToString(response.status)),
                    response.status, errorData)

VARIABLES
  env,        \* process.env.NEXT_PUBLIC_API_URL, read once at module load
  pc,         \* where the current call is
  args,       \* the wrapper called and its arguments
  request,    \* what was passed to fetch
  wire,       \* the request fetch put on the wire
  response,   \* the response fetch resolved with
  rejection,  \* the value fetch rejected with
  result,     \* the value the call resolved with
  error,      \* the value the call threw
  fetchCount, \* fetch calls made by the current call
  bodyReads,  \* response.json() calls made by the current call
  callsMade,  \* calls started so far
  prevOutcome,\* how the call before the current one ended
  calls,      \* the calls of callers running concurrently
  mounted,    \* ApiStatus is mounted
  health,     \* ApiStatus: useState<HealthResponse | null>(null)
  loading,    \* ApiStatus: useState(true)
  statusError,\* ApiStatus: the state `error`, useState<string | null>(null)
  effectsScheduled, \* runs of the effect React has scheduled
  continuations,    \* runs of checkApiHealth that went past `await api.get`
  branch,     \* the branch of checkApiHealth its last run took
  renders,    \* renders of ApiStatus after the first
  staleUpdates \* state setters called after ApiStatus unmounted

\* the state of the ApiStatus component
statusVars ==
  <<mounted, health, loading, statusError, effectsScheduled, continuations, branch, renders,
    staleUpdates>>

vars == <<env, pc, args, request, wire, response, rejection, result, error, fetchCount,
          bodyReads, callsMade, prevOutcome, calls, statusVars>>

None == [k |-> "none"]

\* a caller that has not called yet
IdleCall ==
  [pc |-> "Idle", args |-> None, request |-> None, response |-> None, rejection |-> None,
   result |-> None, error |-> None, concurrent |-> FALSE]

Init ==
  /\ env \in EnvValues
  /\ pc = "Idle"
  /\ args = None
  /\ request = None
  /\ response = None
  /\ rejection = None
  /\ result = None
  /\ error = None
  /\ fetchCount = 0
  /\ bodyReads = 0
  /\ callsMade = 0
  /\ wire = None
  /\ prevOutcome = "none"
  /\ calls = [c \in CallIds |-> IdleCall]
  /\ mounted = FALSE
  /\ health = Null
  /\ loading = TRUE
  /\ statusError = Null
  /\ effectsScheduled = 0
  /\ continuations = 0
  /\ branch = "none"
  /\ renders = 0
  /\ staleUpdates = 0

Settled == pc \in {"Success", "Failure", "Threw"}

\* Call with the last response kept across calls
Call_StaleResponse(a) ==
  /\ pc = "Idle" \/ Settled
  /\ callsMade < MaxCalls
  /\ callsMade' = callsMade + 1
  /\ args' = a
  /\ response' = response
  /\ rejection' = None
  /\ result' = None
  /\ bodyReads' = 0
  /\ LET w == WrapperOptions(a.wrapper, a.data, a.options) IN
     IF w.throws
     THEN /\ pc' = "Threw"
          /\ error' = w.error
          /\ request' = None
          /\ wire' = None
          /\ fetchCount' = 0
     ELSE /\ pc' = "InFlight"
          /\ error' = None
          /\ request' = BuildRequest(env, a.endpoint, w.value)
          /\ wire' = FetchSends(request')
          /\ fetchCount' = 1
  /\ prevOutcome' = IF pc = "Idle" THEN "none" ELSE pc
  /\ UNCHANGED <<env, calls, statusVars>>

\* a wrapper is called: it builds its options, and apiRequest runs up to
\* `await fetch(url, config)`; a throw of JSON.stringify leaves the wrapper
\* before apiRequest is entered
Call(a) ==
  /\ pc = "Idle" \/ Settled
  /\ callsMade < MaxCalls
  /\ callsMade' = callsMade + 1
  /\ args' = a
  /\ response' = None
  /\ rejection' = None
  /\ result' = None
  /\ bodyReads' = 0
  /\ LET w == WrapperOptions(a.wrapper, a.data, a.options) IN
     IF w.throws
     THEN /\ pc' = "Threw"
          /\ error' = w.error
          /\ request' = None
          /\ wire' = None
          /\ fetchCount' = 0
     ELSE /\ pc' = "InFlight"
          /\ error' = None
          /\ request' = BuildRequest(env, a.endpoint, w.value)
          /\ wire' = FetchSends(request')
          /\ fetchCount' = 1
  /\ prevOutcome' = IF pc = "Idle" THEN "none" ELSE pc
  /\ UNCHANGED <<env, calls, statusVars>>

\* FetchRejects issuing the request once more before giving up
FetchRejects_Retry(thrown) ==
  /\ pc = "InFlight"
  /\ rejection' = thrown
  /\ IF fetchCount < 2
     THEN /\ pc' = "InFlight"
          /\ fetchCount' = fetchCount + 1
          /\ error' = error
     ELSE /\ pc' = "Failure"
          /\ fetchCount' = fetchCount
          /\ error' = CatchBlock(thrown)
  /\ UNCHANGED <<statusVars, env, calls, wire, prevOutcome, args, request, response, result, bodyReads, callsMade>>

\* fetch rejects: no response was received
FetchRejects(thrown) ==
  /\ pc = "InFlight"
  /\ pc' = "Failure"
  /\ rejection' = thrown
  /\ error' = CatchBlock(thrown)
  /\ UNCHANGED <<statusVars, env, calls, wire, prevOutcome, args, request, response, result, fetchCount, bodyReads, callsMade>>

\* FetchResolves without the 204 branch
FetchResolves_No204(r) ==
  /\ pc = "InFlight"
  /\ response' = r
  /\ pc' = IF ~ResponseOk(r) THEN "AwaitErrorBody" ELSE "AwaitBody"
  /\ bodyReads' = bodyReads + 1
  /\ UNCHANGED <<statusVars, env, calls, wire, prevOutcome, args, request, rejection, result, error, fetchCount, callsMade>>

\* FetchResolves without the !response.ok branch
FetchResolves_NoOkCheck(r) ==
  /\ pc = "InFlight"
  /\ response' = r
  /\ IF r.status = NoContent
     THEN /\ pc' = "Success"
          /\ result' = Obj(<<>>)
          /\ bodyReads' = bodyReads
     ELSE /\ pc' = "AwaitBody"
          /\ bodyReads' = bodyReads + 1
          /\ result' = result
  /\ UNCHANGED <<statusVars, env, calls, wire, prevOutcome, args, request, rejection, error, fetchCount, callsMade>>

\* fetch resolves with a response
FetchResolves(r) ==
  /\ pc = "InFlight"
  /\ response' = r
  /\ IF ~ResponseOk(r)
     THEN /\ pc' = "AwaitErrorBody"
          /\ bodyReads' = bodyReads + 1
          /\ result' = result
     ELSE IF r.status = NoContent
     THEN /\ pc' = "Success"
          /\ result' = Obj(<<>>)
          /\ bodyReads' = bodyReads
     ELSE /\ pc' = "AwaitBody"
          /\ bodyReads' = bodyReads + 1
          /\ result' = result
  /\ UNCHANGED <<statusVars, env, calls, wire, prevOutcome, args, request, rejection, error, fetchCount, callsMade>>

\* ErrorBodySettles reading the body a second time when building the error
ErrorBodySettles_ReadsAgain ==
  /\ pc = "AwaitErrorBody"
  /\ pc' = "Failure"
  /\ error' = CatchBlock(NotOkThrow(response))
  /\ bodyReads' = bodyReads + 1
  /\ UNCHANGED <<statusVars, env, calls, wire, prevOutcome, args, request, response, rejection, result, fetchCount,
                 callsMade>>

\* ErrorBodySettles awaiting a promise that never settles
ErrorBodySettles_Hangs ==
  /\ pc = "AwaitErrorBody"
  /\ FALSE
  /\ UNCHANGED vars

\* `await response.json().catch(() => ({}))` settles and the error is thrown
ErrorBodySettles ==
  /\ pc = "AwaitErrorBody"
  /\ pc' = "Failure"
  /\ error' = CatchBlock(NotOkThrow(response))
  /\ UNCHANGED <<statusVars, env, calls, wire, prevOutcome, args, request, response, rejection, result, fetchCount, bodyReads,
                 callsMade>>

\* BodySettles with a failed decode swallowed as an empty object
BodySettles_SwallowDecode ==
  /\ pc = "AwaitBody"
  /\ LET read == ResponseJson(response) IN
     /\ pc' = "Success"
     /\ result' = IF read.ok THEN read.val ELSE Obj(<<>>)
  /\ UNCHANGED <<statusVars, env, calls, wire, prevOutcome, args, request, response, rejection, error, fetchCount, bodyReads,
                 callsMade>>

\* BodySettles returning the decoded body wrapped in an envelope
BodySettles_Wrapped ==
  /\ pc = "AwaitBody"
  /\ LET read == ResponseJson(response) IN
     IF read.ok
     THEN /\ pc' = "Success"
          /\ result' = Obj(<<Field("data", read.val)>>)
          /\ error' = error
     ELSE /\ pc' = "Failure"
          /\ error' = CatchBlock(read.error)
          /\ result' = result
  /\ UNCHANGED <<statusVars, env, calls, wire, prevOutcome, args, request, response, rejection, fetchCount, bodyReads, callsMade>>

\* `return await response.json()` settles
BodySettles ==
  /\ pc = "AwaitBody"
  /\ LET read == ResponseJson(response) IN
     IF read.ok
     THEN /\ pc' = "Success"
          /\ result' = read.val
          /\ error' = error
     ELSE /\ pc' = "Failure"
          /\ error' = CatchBlock(read.error)
          /\ result' = result
  /\ UNCHANGED <<statusVars, env, calls, wire, prevOutcome, args, request, response, rejection, fetchCount, bodyReads, callsMade>>

Next ==
  \/ \E a \in CallArgs : Call(a)
  \/ \E t \in FetchRejections : FetchRejects(t)
  \/ \E r \in Responses : FetchResolves(r)
  \/ ErrorBodySettles
  \/ BodySettles

Spec == Init /\ [][Next]_vars

\* the responses and failures of the runs checked for progress
LiveResponses ==
  ConcResponses \cup
  { [status |-> 201, body |-> SerializeValue(Healthy), bodyErrored |-> TRUE],
    [status |-> 422, body |-> <<P("<html>")>>, bodyErrored |-> FALSE],
    [status |-> 404, body |-> SerializeValue(Null), bodyErrored |-> FALSE] }

\* the network delivers a response or a failure to a pending fetch
NetworkDelivers ==
  \/ \E t \in FetchRejections : FetchRejects(t)
  \/ \E r \in LiveResponses : FetchResolves(r)

NextLive ==
  \/ \E a \in ConcArgs : Call(a)
  \/ \E t \in FetchRejections : FetchRejects(t)
  \/ \E r \in LiveResponses : FetchResolves(r)
  \/ ErrorBodySettles
  \/ BodySettles

\* the calls of Spec, over fewer inputs, with a network that eventually
\* delivers and body reads that eventually complete
SpecLive ==
  /\ Init
  /\ [][NextLive]_vars
  /\ WF_vars(NetworkDelivers)
  /\ WF_vars(ErrorBodySettles)
  /\ WF_vars(BodySettles)

(***************************************************************************)
(* Concurrent callers: each call runs apiRequest on its own locals; the     *)
(* steps of different calls interleave at the await points.                *)
(***************************************************************************)
slotVars ==
  <<pc, args, request, wire, response, rejection, result, error, fetchCount, bodyReads,
    callsMade, prevOutcome>>

InFlightStates == {"InFlight", "AwaitErrorBody", "AwaitBody"}

\* some other call is between its fetch and its settling
OthersInFlight(c) == \E d \in CallIds \ {c} : calls[d].pc \in InFlightStates

\* the wrapper and apiRequest up to `await fetch(url, config)`
StartCall(envValue, a) ==
  LET w == WrapperOptions(a.wrapper, a.data, a.options) IN
  IF w.throws
  THEN [IdleCall EXCEPT !.pc = "Threw", !.args = a, !.error = w.error]
  ELSE [IdleCall EXCEPT !.pc = "InFlight", !.args = a,
                        !.request = BuildRequest(envValue, a.endpoint, w.value)]

\* apiRequest resumed with the response fetch resolved with
ResumeWithResponse(call, r) ==
  IF ~ResponseOk(r) THEN [call EXCEPT !.pc = "AwaitErrorBody", !.response = r]
  ELSE IF r.status = NoContent
  THEN [call EXCEPT !.pc = "Success", !.response = r, !.result = Obj(<<>>)]
  ELSE [call EXCEPT !.pc = "AwaitBody", !.response = r]

\* apiRequest resumed after `await response.json()`, on either branch
ResumeWithBody(call, r) ==
  IF call.pc = "AwaitErrorBody"
  THEN [call EXCEPT !.pc = "Failure", !.error = CatchBlock(NotOkThrow(r))]
  ELSE LET read == ResponseJson(r) IN
       IF read.ok THEN [call EXCEPT !.pc = "Success", !.result = read.val]
       ELSE [call EXCEPT !.pc = "Failure", !.error = CatchBlock(read.error)]

ConcCall(c, a) ==
  /\ calls[c].pc = "Idle"
  /\ calls' = [calls EXCEPT ![c] =
                 [StartCall(env, a) EXCEPT !.concurrent = OthersInFlight(c)]]
  /\ UNCHANGED <<env, slotVars, statusVars>>

ConcFetchRejects(c, thrown) ==
  /\ calls[c].pc = "InFlight"
  /\ calls' = [calls EXCEPT ![c] =
                 [@ EXCEPT !.pc = "Failure", !.rejection = thrown,
                           !.error = CatchBlock(thrown),
                           !.concurrent = @ \/ OthersInFlight(c)]]
  /\ UNCHANGED <<env, slotVars, statusVars>>

ConcFetchResolves(c, r) ==
  /\ calls[c].pc = "InFlight"
  /\ calls' = [calls EXCEPT ![c] =
                 [ResumeWithResponse(@, r) EXCEPT !.concurrent = @ \/ OthersInFlight(c)]]
  /\ UNCHANGED <<env, slotVars, statusVars>>

\* ConcBodySettles with the response kept in one variable shared by all calls
ConcBodySettles_SharedResponse(c) ==
  /\ calls[c].pc \in {"AwaitErrorBody", "AwaitBody"}
  /\ LET last == CHOOSE d \in CallIds :
                   /\ calls[d].response # None
                   /\ \A e \in CallIds : calls[e].response # None => e <= d
     IN  calls' = [calls EXCEPT ![c] =
                     [ResumeWithBody(@, calls[last].response)
                        EXCEPT !.concurrent = @ \/ OthersInFlight(c)]]
  /\ UNCHANGED <<env, slotVars, statusVars>>

ConcBodySettles(c) ==
  /\ calls[c].pc \in {"AwaitErrorBody", "AwaitBody"}
  /\ calls' = [calls EXCEPT ![c] =
                 [ResumeWithBody(@, calls[c].response)
                    EXCEPT !.concurrent = @ \/ OthersInFlight(c)]]
  /\ UNCHANGED <<env, slotVars, statusVars>>

NextConc ==
  \/ \E c \in CallIds, a \in ConcArgs : ConcCall(c, a)
  \/ \E c \in CallIds, t \in ConcRejections : ConcFetchRejects(c, t)
  \/ \E c \in CallIds, r \in ConcResponses : ConcFetchResolves(c, r)
  \/ \E c \in CallIds : ConcBodySettles(c)

SpecConc == Init /\ [][NextConc]_vars

(***************************************************************************)
(* The ApiStatus component: its three pieces of state, its effect, and     *)
(* checkApiHealth, which calls api.get("/health").                        *)
(***************************************************************************)
MaxRenders == 2

\* api.get<HealthResponse>("/health")
HealthCall ==
  [wrapper |-> "get", endpoint |-> "/health", data |-> Undefined, options |-> Undefined]

\* `API error: ${err.message} (Status: ${err.status})`
ErrorText(err) ==
  "API error: " \o err.message \o " (Status: " \o ToString(err.status) \o ")"

\* React mounts ApiStatus: the first render with the initial state, and the
\* effect scheduled to run after it
Mount ==
  /\ ~mounted
  /\ effectsScheduled = 0
  /\ mounted' = TRUE
  /\ health' = Null
  /\ loading' = TRUE
  /\ statusError' = Null
  /\ effectsScheduled' = 1
  /\ UNCHANGED <<continuations, branch, renders, staleUpdates, env, slotVars, calls>>

\* the effect runs: checkApiHealth() up to `await api.get("/health")`
RunEffect ==
  /\ mounted
  /\ callsMade < effectsScheduled
  /\ Call(HealthCall)

\* Rerender of an effect written without its dependency array: every render
\* schedules the effect again
Rerender_NoDeps ==
  /\ mounted
  /\ renders < MaxRenders
  /\ renders' = renders + 1
  /\ effectsScheduled' = effectsScheduled + 1
  /\ UNCHANGED <<mounted, health, loading, statusError, continuations, branch, staleUpdates,
                 env, slotVars, calls>>

\* ApiStatus renders again, after a state change or a render of its parent:
\* the dependency array [] has not changed, so the effect is not scheduled
Rerender ==
  /\ mounted
  /\ renders < MaxRenders
  /\ renders' = renders + 1
  /\ UNCHANGED <<mounted, health, loading, statusError, effectsScheduled, continuations, branch,
                 staleUpdates, env, slotVars, calls>>

\* React unmounts ApiStatus: the effect returned no cleanup function, so the
\* request and checkApiHealth go on
Unmount ==
  /\ mounted
  /\ mounted' = FALSE
  /\ UNCHANGED <<health, loading, statusError, effectsScheduled, continuations, branch, renders,
                 staleUpdates, env, slotVars, calls>>

\* checkApiHealth resumes after `await api.get`: the rest of the try block or
\* the catch block, then finally.  The three setters are called whether or
\* not the component is still mounted; React drops an update made to an
\* unmounted component
HealthSettles ==
  /\ Settled
  /\ continuations < callsMade
  /\ continuations' = continuations + 1
  /\ branch' = IF pc = "Success" THEN "try"
               ELSE IF InstanceOfApiError(error) THEN "ApiError" ELSE "fallback"
  /\ IF mounted
     THEN /\ health' = IF pc = "Success" THEN result ELSE Null
          /\ statusError' =
               IF pc = "Success" THEN Null
               ELSE IF InstanceOfApiError(error) THEN Str(ErrorText(error))
               ELSE IF InstanceOfError(error) THEN Str(error.message)
               ELSE Str("Failed to connect to API")
          /\ loading' = FALSE
          /\ staleUpdates' = staleUpdates
     ELSE /\ staleUpdates' = staleUpdates + 3
          /\ UNCHANGED <<health, statusError, loading>>
  /\ UNCHANGED <<mounted, effectsScheduled, renders, env, slotVars, calls>>

NextStatus ==
  \/ Mount
  \/ RunEffect
  \/ Rerender
  \/ Unmount
  \/ \E t \in FetchRejections : FetchRejects(t)
  \/ \E r \in Responses : FetchResolves(r)
  \/ ErrorBodySettles
  \/ BodySettles
  \/ HealthSettles

\* a page showing ApiStatus: its health request is the only call made
SpecStatus == Init /\ [][NextStatus]_vars

(***************************************************************************)
(* Properties.                                                             *)
(***************************************************************************)
In2xx(status) == status \in 200..299
ResponseReceived == response # None
Raised == pc \in {"Failure", "Threw"}
\* the body on the wire is valid JSON and was read to its end
BodyDecodes == ~response.bodyErrored /\ JsonParse(response.body).ok
DecodedBody == JsonParse(response.body).val
FallbackMessage == "API error: " \o ToString(response.status)

\* C1: whenever a response with status outside [200,299] was received, the
\* error raised has statusCode equal to that status, whatever the body.
C1_StatusCodeIsResponseStatus ==
  (pc = "Failure" /\ ResponseReceived /\ ~In2xx(response.status))
    => (InstanceOfApiError(error) /\ error.status = response.status)

\* C2: a call resolves with a value iff a response with status in [200,299]
\* was received and the status is 204 or the body decodes; in every other
\* case it raises and holds no value.
C2_ResolvesIffDecodable2xx ==
  LET good == /\ ResponseReceived
              /\ In2xx(response.status)
              /\ (response.status = 204 \/ BodyDecodes)
  IN  /\ pc = "Success" => (good /\ result # None /\ error = None)
      /\ Raised => (~good /\ result = None /\ error # None)
      /\ result # None => pc = "Success"

C2_Witness ==
  /\ pc = "Success"
  /\ response.status = 200
  /\ result = Healthy

\* C3: every failure of get, post, put, patch and del reaches the caller as
\* an ApiError and as nothing else.
C3_OnlyApiErrorRaised ==
  Raised => InstanceOfApiError(error)

\* C4: a raised error has statusCode 0 exactly when no response was received
\* or the response had a status in [200,299], and a non-zero statusCode
\* exactly when a response with status outside [200,299] was received.
C4_ZeroStatusSeparatesKinds ==
  pc = "Failure" =>
    /\ InstanceOfApiError(error)
    /\ (error.status = 0) <=> (~ResponseReceived \/ In2xx(response.status))
    /\ (error.status # 0) <=> (ResponseReceived /\ ~In2xx(response.status))

\* C5: when fetch fails before any response is received, the error raised has
\* statusCode 0, payload undefined, and the message of the transport error,
\* or "Unknown error occurred" when what was thrown is not an Error and so
\* carries no message.
C5_TransportFailureShape ==
  (pc = "Failure" /\ rejection # None) =>
    /\ InstanceOfApiError(error)
    /\ error.status = 0
    /\ error.data = Undefined
    /\ error.message = IF rejection.cls = "none" THEN "Unknown error occurred"
                       ELSE rejection.message

C5_Witness ==
  /\ pc = "Failure"
  /\ rejection = JsError("TypeError", "Failed to fetch")
  /\ error.message = "Failed to fetch"

\* C6: a response with status in [200,299] other than 204 whose body is not
\* valid JSON raises an error shaped like a transport failure: statusCode 0,
\* payload undefined, message taken from the decode error.
C6_DecodeFailureShape ==
  (/\ Settled
   /\ ResponseReceived
   /\ In2xx(response.status)
   /\ response.status # 204
   /\ ~JsonParse(response.body).ok) =>
    /\ pc = "Failure"
    /\ InstanceOfApiError(error)
    /\ error.status = 0
    /\ error.data = Undefined
    /\ ~response.bodyErrored => error.message = JsonParse(response.body).message

C6_Witness ==
  /\ pc = "Failure"
  /\ ResponseReceived
  /\ response.status = 200
  /\ response.body = <<P("<html>")>>
  /\ ~response.bodyErrored
  /\ error.message = "Unexpected token in JSON"

\* C7: for a response with status outside [200,299] whose body decodes as
\* JSON, the message is the detail value when a detail field is present and
\* the fallback "API error: <status>" only when none is; the payload is the
\* decoded body in both cases.
C7_MessageIsDetail ==
  (pc = "Failure" /\ ResponseReceived /\ ~In2xx(response.status) /\ BodyDecodes) =>
    /\ InstanceOfApiError(error)
    /\ error.data = DecodedBody
    /\ IF DecodedBody.k = "obj" /\ HasField(DecodedBody, "detail")
       THEN Str(error.message) = GetField(DecodedBody, "detail")
       ELSE error.message = FallbackMessage

\* C8: for a response with status outside [200,299] whose body is not valid
\* JSON, the failed decode is not propagated: payload is an empty object,
\* message is "API error: <status>" and statusCode is the response status.
C8_UndecodableErrorBody ==
  (/\ Settled
   /\ ResponseReceived
   /\ ~In2xx(response.status)
   /\ ~JsonParse(response.body).ok) =>
    /\ pc = "Failure"
    /\ InstanceOfApiError(error)
    /\ error.data = Obj(<<>>)
    /\ error.message = FallbackMessage
    /\ error.status = response.status

C8_Witness ==
  /\ pc = "Failure"
  /\ ResponseReceived
  /\ response.status = 404
  /\ response.body = <<P("<html>")>>
  /\ error.message = "API error: 404"

\* C9: for a response with status 204 the call resolves to an empty object
\* and the body is never read, whatever bytes the server sent.
C9_NoContent ==
  (ResponseReceived /\ response.status = 204) =>
    /\ pc = "Success"
    /\ result = Obj(<<>>)
    /\ bodyReads = 0

C9_Witness ==
  /\ pc = "Success"
  /\ response.status = 204
  /\ response.body = SerializeValue(Healthy)
  /\ result = Obj(<<>>)

RequestIssued == request # None
\* options.key as the caller passed it; undefined when options is omitted
OptionOf(key) == IF args.options.k = "obj" THEN GetField(args.options, key) ELSE Undefined
SentBody == GetField(request.config, "body")
SentMethod == GetField(request.config, "method")

\* C11: post, put and patch send no body when data is omitted, and for every
\* data value that is provided send the JSON serialization of that data.
C11_BodyIsSerializedData ==
  (RequestIssued /\ args.wrapper \in {"post", "put", "patch"}) =>
    SentBody = IF args.data = Undefined THEN Undefined
               ELSE [k |-> "text", toks |-> SerializeValue(args.data)]

\* C13: every call issues exactly one network request, in every outcome.
C13_ExactlyOneRequest ==
  Settled => fetchCount = 1

\* C14: every error raised has an integer statusCode and a non-empty message.
C14_ErrorFieldsPopulated ==
  pc = "Failure" =>
    /\ InstanceOfApiError(error)
    /\ error.status \in Int
    /\ error.message # ""

\* C15 as stated: a raised error carries a payload only when a response body
\* was decoded as JSON; with no decoded body the payload is absent.
C15_PayloadOnlyWhenDecoded ==
  pc = "Failure" =>
    /\ error.data # Undefined => (ResponseReceived /\ BodyDecodes)
    /\ (~ResponseReceived \/ ~BodyDecodes) => error.data = Undefined

\* C15 as amended: a raised error carries a payload only when a response with
\* status outside [200,299] was received; the payload is then the decoded
\* body, or an empty object when the body did not decode.  Transport
\* failures and decode failures on a 2xx response carry no payload.
C15_PayloadOnlyForErrorResponse ==
  pc = "Failure" =>
    /\ InstanceOfApiError(error)
    /\ error.data # Undefined =>
         /\ ResponseReceived
         /\ ~In2xx(response.status)
         /\ error.data = IF BodyDecodes THEN DecodedBody ELSE Obj(<<>>)
    /\ (~ResponseReceived \/ In2xx(response.status)) => error.data = Undefined
    /\ (ResponseReceived /\ ~In2xx(response.status) /\ ~BodyDecodes)
         => error.data = Obj(<<>>)

C15_Witness ==
  /\ pc = "Failure"
  /\ ResponseReceived
  /\ response.status = 404
  /\ response.body = <<>>
  /\ error.data = Obj(<<>>)

MethodOf(wrapper) ==
  CASE wrapper = "get"   -> "GET"
    [] wrapper = "post"  -> "POST"
    [] wrapper = "put"   -> "PUT"
    [] wrapper = "patch" -> "PATCH"
    [] wrapper = "del"   -> "DELETE"

\* C20: each wrapper sends its own method on every call, also when the
\* caller's options carry a different method.
C20_WrapperMethod ==
  RequestIssued => SentMethod = Str(MethodOf(args.wrapper))

C20_Witness ==
  /\ RequestIssued
  /\ args.wrapper = "del"
  /\ OptionOf("method") = Str("HEAD")
  /\ SentMethod = Str("DELETE")

\* the (name, value) pairs the caller supplied as headers, whatever their form
CallerHeaders ==
  LET h == OptionOf("headers") IN
  CASE h.k = "obj"     -> [i \in 1..Len(h.fields) |->
                             [name |-> h.fields[i].key, value |-> h.fields[i].val.s]]
    [] h.k = "headers" -> [i \in 1..Len(h.list) |->
                             [name |-> h.list[i].key, value |-> h.list[i].val.s]]
    [] h.k = "arr"     -> [i \in 1..Len(h.items) |->
                             [name |-> h.items[i].items[1].s,
                              value |-> h.items[i].items[2].s]]
    [] OTHER           -> <<>>

\* the values sent for a header name, compared case-insensitively
SentValues(name) ==
  { wire.headers[i].value :
      i \in { j \in 1..Len(wire.headers) : wire.headers[j].name = LowerCase(name) } }

\* C12: the headers sent contain Content-Type: application/json unless the
\* caller supplies a Content-Type header (under any spelling of the name), in
\* which case the caller's value is the single value sent; every other header
\* of the caller is sent as given, whatever form the caller's headers take.
C12_HeadersSent ==
  RequestIssued =>
    LET caller == CallerHeaders
        given == { i \in 1..Len(caller) : LowerCase(caller[i].name) = "content-type" }
    IN  /\ given = {} => SentValues("Content-Type") = {"application/json"}
        /\ \A i \in 1..Len(caller) : SentValues(caller[i].name) = {caller[i].value}

\* what a call alone makes of its own arguments and its own network outcome
SoloRequest(k) ==
  BuildRequest(env, k.args.endpoint,
               WrapperOptions(k.args.wrapper, k.args.data, k.args.options).value)
SoloResult(k) ==
  IF k.response.status = 204 THEN Obj(<<>>)
  ELSE LET parsed == JsonParse(k.response.body) IN
       IF parsed.ok THEN parsed.val ELSE None
SoloError(k) ==
  IF k.rejection # None THEN CatchBlock(k.rejection)
  ELSE IF ~In2xx(k.response.status) THEN CatchBlock(NotOkThrow(k.response))
  ELSE LET read == ResponseJson(k.response) IN
       IF read.ok THEN None ELSE CatchBlock(read.error)

\* C16: with several calls in flight at once and their responses or failures
\* arriving in any order, each call's request and outcome are those its own
\* arguments and its own response determine.
C16_CallsIndependent ==
  \A c \in CallIds :
    LET k == calls[c] IN
    /\ k.pc \in InFlightStates \cup {"Success", "Failure"} => k.request = SoloRequest(k)
    /\ k.pc = "Success" =>
         /\ In2xx(k.response.status)
         /\ k.result = SoloResult(k)
         /\ k.error = None
    /\ k.pc = "Failure" =>
         /\ k.error = SoloError(k)
         /\ k.result = None

C16_Witness ==
  /\ calls[1].pc = "Success" /\ calls[1].concurrent
  /\ calls[2].pc = "Failure" /\ calls[2].concurrent
  /\ calls[1].response.status = 200
  /\ calls[2].response # None /\ calls[2].response.status = 404

\* the state a call starts in, from the Endpoint Base and its arguments alone
FreshCall(a) ==
  LET k == StartCall(env, a) IN
  <<k.pc, k.request, IF k.request = None THEN None ELSE FetchSends(k.request),
    k.response, k.rejection, k.result, k.error, IF k.pc = "Threw" THEN 0 ELSE 1, 0>>

\* C17: no call changes state that outlives it: the Endpoint Base never
\* changes, and a call starts from a state fixed by the Endpoint Base and its
\* own arguments, whatever the calls before it did.
C17_NoRetainedState ==
  [][/\ env' = env
     /\ callsMade' # callsMade =>
          <<pc', request', wire', response', rejection', result', error', fetchCount',
            bodyReads'>> = FreshCall(args')]_vars

C17_Witness ==
  /\ callsMade = 2
  /\ prevOutcome = "Failure"
  /\ pc = "Success"
  /\ result = Healthy

C19_EventuallySettles ==
  /\ (pc \in InFlightStates) ~> (pc \in {"Success", "Failure"})
  /\ [][(pc \in InFlightStates) =>
          (/\ callsMade' = callsMade
           /\ pc = "InFlight" => (response' # None \/ rejection' # None)
           /\ pc # "InFlight" => (pc' \in {"Success", "Failure"} /\ bodyReads' = 1))]_vars

C19_Witness ==
  /\ pc = "Failure"
  /\ bodyReads = 1
  /\ ResponseReceived
  /\ response.bodyErrored

\* the options the caller passed, as (key, value) fields; none when omitted
CallerOptions == IF args.options.k = "obj" THEN args.options.fields ELSE <<>>
ConfigKeys == { request.config.fields[i].key : i \in 1..Len(request.config.fields) }

\* C21: get and del set the method only: every other option of the caller
\* reaches fetch unchanged (its headers in whatever form they were given, its
\* body, any further option), and nothing is added except the method and,
\* when the caller gave no Content-Type header, the default one.
C21_OptionsPassThrough ==
  (RequestIssued /\ args.wrapper \in {"get", "del"}) =>
    LET opts == CallerOptions
        caller == CallerHeaders
        given == { i \in 1..Len(caller) : LowerCase(caller[i].name) = "content-type" }
    IN  /\ \A i \in 1..Len(opts) :
             opts[i].key \notin {"method", "headers"} =>
               GetField(request.config, opts[i].key) = opts[i].val
        /\ ConfigKeys \subseteq
             { opts[i].key : i \in 1..Len(opts) } \cup {"method", "headers"}
        /\ \A i \in 1..Len(caller) : SentValues(caller[i].name) = {caller[i].value}
        /\ given = {} => SentValues("Content-Type") = {"application/json"}
        /\ { wire.headers[i].name : i \in 1..Len(wire.headers) } \subseteq
             { LowerCase(caller[i].name) : i \in 1..Len(caller) } \cup {"content-type"}

\* the Endpoint Base the configuration asks for: the environment's value
\* whenever it is set, the local default only when it is unset
ConfiguredBase == IF env = Undefined THEN "http://localhost:8000" ELSE env.s

\* C22: every request goes to the Endpoint Base followed by the given path,
\* neither part altered; the Endpoint Base is the environment's value
\* whenever one is provided and http://localhost:8000 only when it is unset.
C22_UrlIsBasePlusPath ==
  RequestIssued =>
    /\ request.url = ConfiguredBase \o args.endpoint
    /\ wire.url = request.url

\* C23: within one call the response body is read at most once: exactly once
\* for a received response whose status is not 204, never for a 204 response
\* or when the network call fails; no read starts before the response arrived.
C23_BodyReadOnce ==
  /\ bodyReads \in {0, 1}
  /\ ~ResponseReceived => bodyReads = 0
  /\ ResponseReceived => bodyReads = IF response.status = 204 THEN 0 ELSE 1
  /\ (Settled /\ rejection # None) => bodyReads = 0

C23_Witness ==
  /\ pc = "Failure"
  /\ ResponseReceived
  /\ response.status = 404
  /\ bodyReads = 1

\* C24: post, put and patch never send a body taken from the caller's
\* options: the body sent is the serialization of data or absent, and an
\* options.body given together with omitted data is dropped.
C24_OptionsBodyDropped ==
  (RequestIssued /\ args.wrapper \in {"post", "put", "patch"}) =>
    /\ wire.body = SentBody
    /\ IF args.data = Undefined THEN SentBody = Undefined
       ELSE \/ SentBody = Undefined
            \/ SentBody = [k |-> "text", toks |-> SerializeValue(args.data)]

C24_Witness ==
  /\ RequestIssued
  /\ args.wrapper = "patch"
  /\ args.data = Undefined
  /\ OptionOf("body") = Str("raw")
  /\ wire.body = Undefined

\* C25: in ApiStatus, once loading is false exactly one of health and error
\* is non-null, health after a resolved request and error after a raised one,
\* whatever the outcome of the request; loading starts true and never
\* returns to true once false.
C25_ExactlyOneOfHealthAndError ==
  /\ loading = TRUE
  /\ [](~loading =>
          /\ (health # Null) # (statusError # Null)
          /\ branch = "try" => health # Null
          /\ branch # "try" => statusError # Null)
  /\ [][loading = FALSE => loading' = FALSE]_vars

\* C26: when ApiStatus unmounts with its health request in flight, the later
\* settling of the request is discarded: the effect's cleanup keeps
\* checkApiHealth from calling any state setter of the unmounted component.
C26_OrphanedResultDiscarded ==
  ~mounted => staleUpdates = 0

\* C27: ApiStatus issues one health request per mount and never another,
\* whatever the outcome: none after a failure, none on a later render.
C27_OneHealthRequestPerMount ==
  /\ callsMade <= 1
  /\ fetchCount <= 1
  /\ continuations <= 1
  /\ branch # "none" => (callsMade = 1 /\ fetchCount = 1)

C27_Witness ==
  /\ mounted
  /\ branch = "ApiError"
  /\ statusError # Null
  /\ renders >= 2
  /\ callsMade = 1
  /\ fetchCount = 1

\* C28: every failure of the health request is recorded by ApiStatus as the
\* text "API error: <message> (Status: <status>)" built from the raised
\* ApiError; the branch for failures that are not ApiError is never taken.
C28_FailureRecordedFromApiError ==
  /\ branch # "fallback"
  /\ (continuations = 1 /\ Raised) => (branch = "ApiError" /\ InstanceOfApiError(error))
  /\ (branch = "ApiError" /\ ~loading) =>
       statusError =
         Str("API error: " \o error.message \o " (Status: " \o ToString(error.status) \o ")")

C28_Witness ==
  /\ branch = "ApiError"
  /\ ~loading
  /\ ResponseReceived
  /\ response.status = 404
  /\ statusError = Str("API error: Not found (Status: 404)")
====
